---- MODULE Spec2Model ----
(***************************************************************************)
(* The fetch-and-cache subsystem of MDAnalysisData: the two dataset        *)
(* modules adk_equilibrium.py and ifabp_water.py (fetch_adk_equilibrium,   *)
(* fetch_ifabp_water), run by concurrent callers over one shared           *)
(* filesystem.  The helpers imported from .base (get_data_home,            *)
(* _fetch_remote, Bunch) are modelled from the design document: the        *)
(* Downloader streams to a temporary file, verifies the digest and renames.*)
(***************************************************************************)
EXTENDS Integers, Sequences, FiniteSets, TLC

VARIABLES
    dirs,       \* the directories that exist (a set of paths)
    files,      \* the regular files that exist: path -> content
    pc,         \* per caller: position in the fetch function
    args,       \* per caller: [module, data_home, download_if_missing]
    idx,        \* per caller: position of the for loop in ARCHIVE.items()
    records,    \* per caller: the Bunch under construction (role -> path)
    attempt,    \* per caller: retries used by the running _fetch_remote
    result,     \* per caller: what the last call gave back to its caller
    fetched,    \* per caller: roles _fetch_remote was invoked for, in order
    examined,   \* per caller: roles whose local_path was tested, in order
    placed,     \* final path -> number of renames that put a file there
    failedDl,   \* final paths whose latest download failed, not placed since
    retryOf,    \* per caller: roles found absent whose path was in failedDl
    firstOK,    \* <<data_home, module>> -> bundle of the first successful call
    priorOK,    \* per caller: firstOK of its arguments when the call began
    seenCorrupt,\* per caller: roles found present with a wrong digest
    interfered, \* per caller: somebody else changed the cache since it began
    calls       \* number of fetch calls started so far

vars == <<dirs, files, pc, args, idx, records, attempt, result, fetched,
          examined, placed, failedDl, retryOf, firstOK, priorOK, seenCorrupt,
          interfered, calls>>

Procs == {"p1", "p2"}

None == "None"

\* Bounds of the model.
MaxRetries == 1
MaxCalls == 2
MaxMutations == 1

----------------------------------------------------------------------------
(* Static configuration of the two dataset modules.                        *)

Modules == {"adk_equilibrium", "ifabp_water"}

\* Mutant: both modules use the name of the first.
NAMEShared(m) == "adk_equilibrium"


NAME(m) == IF m = "adk_equilibrium" THEN "adk_equilibrium" ELSE "ifabp_water"

DESCRIPTION(m) ==
    IF m = "adk_equilibrium" THEN "adk_equilibrium.rst" ELSE "ifabp_water.rst"

RemoteFileMetadata(f, u, c) == [filename |-> f, url |-> u, checksum |-> c]

\* ARCHIVE as the sequence of its (key, value) items in insertion order.
ARCHIVE(m) ==
    IF m = "adk_equilibrium"
    THEN << <<"topology",
              RemoteFileMetadata("adk4AKE.psf",
                  "https://ndownloader.figshare.com/files/8672230",
                  "1aa947d58fb41b6805dc1e7be4dbe65c6a8f4690f0bd7fc2ae03e7bd437085f4")>>,
            <<"trajectory",
              RemoteFileMetadata("1ake_007-nowater-core-dt240ps.dcd",
                  "https://ndownloader.figshare.com/files/8672074",
                  "598fcbcfcc425f6eafbe9997238320fcacc6a4613ecce061e1521732bab734bf")>> >>
    ELSE << <<"topology",
              RemoteFileMetadata("ifabp_water.psf",
                  "https://ndownloader.figshare.com/files/12980639",
                  "ba40714318aabec537015dc550fe5bd5ac1ac0b853f5abdd2f0ae63af9cfcafa")>>,
            <<"structure",
              RemoteFileMetadata("ifabp_water_0.pdb",
                  "https://ndownloader.figshare.com/files/12980636",
                  "8ccf5f75fd85385921c0cb77f00281a93b933fc1261c42fc9492f43983448a72")>>,
            <<"trajectory",
              RemoteFileMetadata("rmsfit_ifabp_water_1.dcd",
                  "https://ndownloader.figshare.com/files/12980642",
                  "cebb48e58015abc8ff2f5bb7ba3eb7a289047f256351a8252bf1f29f9aaacf0e")>> >>

\* Mutant: the items are visited last to first.
ItemsReversed(m) ==
    [k \in 1..Len(ARCHIVE(m)) |-> ARCHIVE(m)[Len(ARCHIVE(m)) + 1 - k]]

\* for file_type, meta in ARCHIVE.items(): the order of iteration.
Items(m) == ARCHIVE(m)

Roles(m) == {Items(m)[k][1] : k \in 1..Len(Items(m))}

Meta(m, role) ==
    ARCHIVE(m)[CHOOSE k \in 1..Len(ARCHIVE(m)) : ARCHIVE(m)[k][1] = role][2]

AllMeta == UNION {{Meta(m, r) : r \in Roles(m)} : m \in Modules}

----------------------------------------------------------------------------
(* Paths, the filesystem and file contents.                                *)

\* os.path.join: a path is the sequence of its components.
join(a, b) == Append(a, b)

\* base.get_data_home: the override when given, else the default location
\* under the user's home directory.
get_data_home(data_home) ==
    IF data_home = None THEN <<"~", "MDAnalysis_data">> ELSE <<data_home>>

DataHomeArgs == {None}

\* os.path.exists
exists(path) == path \in dirs \/ path \in DOMAIN files

data_location(m, data_home) == join(get_data_home(data_home), NAME(m))

local_path(m, data_home, role) ==
    join(data_location(m, data_home), Meta(m, role).filename)

FinalPaths ==
    {local_path(m, h, r) : <<m, h, r>> \in
        UNION {{<<m, h, r>> : r \in Roles(m)} : <<m, h>> \in Modules \X DataHomeArgs}}

\* Mutant: the download is written in place, at the final path.
temp_path_in_place(dirname, meta, p) == join(dirname, meta.filename)

\* The temporary file of caller p's download of meta into dirname: the name
\* <filename>.part.<p>, written as three components.
temp_path(dirname, meta, p) == dirname \o <<meta.filename, "part", p>>

\* A content is <<url, state>>: the bytes published at url, whole
\* ("complete"), cut short ("partial"), damaged in transfer ("corrupt") or
\* changed on disk afterwards ("mutated").
Hosted(url) == <<url, "complete">>

OtherDigest == "e3b0c44298fc1c149afbf4c8996fb92427ae41e4649b934ca495991b7852b855"

\* base._sha256: the published bytes hash to the recorded checksum, any
\* other content to some other digest.
sha256(content) ==
    IF content[2] = "complete"
    THEN (CHOOSE e \in AllMeta : e.url = content[1]).checksum
    ELSE OtherDigest

Verified(path, meta) ==
    path \in DOMAIN files /\ sha256(files[path]) = meta.checksum

WriteFile(fs, path, content) ==
    [q \in DOMAIN fs \cup {path} |-> IF q = path THEN content ELSE fs[q]]

RemoveFile(fs, path) == [q \in DOMAIN fs \ {path} |-> fs[q]]

----------------------------------------------------------------------------
(* Results of a call.                                                      *)

Bunch == <<>>

\* Mutant: only the last component of the value (the bare filename) is kept.
SetItemBasename(b, key, value) ==
    [k \in DOMAIN b \cup {key} |->
        IF k = key THEN <<value[Len(value)]>> ELSE b[k]]

SetItem(b, key, value) ==
    [k \in DOMAIN b \cup {key} |-> IF k = key THEN value ELSE b[k]]

NoExc == [type |-> "", role |-> "", path |-> <<>>]

NoResult == [status |-> "none", bundle |-> Bunch, exc |-> NoExc]

Returned(b) == [status |-> "returned", bundle |-> b, exc |-> NoExc]

\* Mutant: the failure hands back what was collected so far.
RaisedPartial(recs, type, role, path) ==
    [status |-> "raised", bundle |-> recs,
     exc |-> [type |-> type, role |-> role, path |-> path]]

\* An exception leaving the fetch function: the caller gets no value.
Raised(recs, type, role, path) ==
    [status |-> "raised", bundle |-> Bunch,
     exc |-> [type |-> type, role |-> role, path |-> path]]

DescrText(m) == <<"text of", DESCRIPTION(m)>>

----------------------------------------------------------------------------
(* The state before any call: nothing exists under any data_home.          *)

NoArgs == [module |-> "adk_equilibrium", data_home |-> None,
           download_if_missing |-> TRUE]

Init ==
    /\ dirs = {}
    /\ files = <<>>
    /\ pc = [p \in Procs |-> "idle"]
    /\ args = [p \in Procs |-> NoArgs]
    /\ idx = [p \in Procs |-> 1]
    /\ records = [p \in Procs |-> Bunch]
    /\ attempt = [p \in Procs |-> 0]
    /\ result = [p \in Procs |-> NoResult]
    /\ fetched = [p \in Procs |-> <<>>]
    /\ examined = [p \in Procs |-> <<>>]
    /\ placed = [f \in FinalPaths |-> 0]
    /\ failedDl = {}
    /\ retryOf = [p \in Procs |-> {}]
    /\ firstOK = [k \in DataHomeArgs \X Modules |-> Bunch]
    /\ priorOK = [p \in Procs |-> Bunch]
    /\ seenCorrupt = [p \in Procs |-> {}]
    /\ interfered = [p \in Procs |-> FALSE]
    /\ calls = 0

\* Mutant: the dataset name is not joined to data_home.
LocNoName(p) == get_data_home(args[p].data_home)

Loc(p) == data_location(args[p].module, args[p].data_home)

CurItem(p) == Items(args[p].module)[idx[p]]

CurPath(p) == join(Loc(p), CurItem(p)[2].filename)

CurTemp(p) == temp_path(Loc(p), CurItem(p)[2], p)

\* Somebody (caller q, or the outside) changes a directory or a final path:
\* every other call in progress or finished has seen the cache change.
Interfere(q) ==
    interfered' = [p \in Procs |-> interfered[p] \/ (p # q /\ pc[p] # "idle")]

\* The call is over: its local variables are gone.
Leave(p, res) ==
    /\ pc' = [pc EXCEPT ![p] = "done"]
    /\ result' = [result EXCEPT ![p] = res]
    /\ idx' = [idx EXCEPT ![p] = 1]
    /\ records' = [records EXCEPT ![p] = Bunch]
    /\ attempt' = [attempt EXCEPT ![p] = 0]

\* The exception leaves the function.
Raise(p, type, role, path) == Leave(p, Raised(records[p], type, role, path))

----------------------------------------------------------------------------
(* fetch_adk_equilibrium / fetch_ifabp_water, statement by statement.      *)

\* A caller enters the fetch function of module m.
Call(p, m, data_home, download_if_missing) ==
    /\ pc[p] \in {"idle", "done"}
    /\ calls < MaxCalls
    /\ calls' = calls + 1
    /\ pc' = [pc EXCEPT ![p] = "exists_dir"]
    /\ args' = [args EXCEPT ![p] = [module |-> m, data_home |-> data_home,
                    download_if_missing |-> download_if_missing]]
    /\ result' = [result EXCEPT ![p] = NoResult]
    /\ fetched' = [fetched EXCEPT ![p] = <<>>]
    /\ examined' = [examined EXCEPT ![p] = <<>>]
    /\ retryOf' = [retryOf EXCEPT ![p] = {}]
    /\ priorOK' = [priorOK EXCEPT ![p] = firstOK[<<data_home, m>>]]
    /\ seenCorrupt' = [seenCorrupt EXCEPT ![p] = {}]
    /\ interfered' = [interfered EXCEPT ![p] = FALSE]
    /\ UNCHANGED <<dirs, files, idx, records, attempt, placed, failedDl, firstOK>>

\* if not exists(data_location):
ExistsDataLocation(p) ==
    /\ pc[p] = "exists_dir"
    /\ pc' = [pc EXCEPT ![p] = IF exists(Loc(p)) THEN "loop" ELSE "makedirs"]
    /\ UNCHANGED <<dirs, files, args, idx, records, attempt, result, fetched,
                   examined, placed, failedDl, retryOf, firstOK, priorOK,
                   seenCorrupt, interfered, calls>>

\* os.makedirs(name) without exist_ok: the missing parents are created (a
\* parent made by someone else meanwhile is tolerated), the leaf must not
\* exist.
makedirs(p, name) ==
    IF exists(name)
    THEN /\ Raise(p, "FileExistsError", "", name)
         /\ UNCHANGED <<dirs, interfered>>
    ELSE /\ dirs' = dirs \cup {SubSeq(name, 1, k) : k \in 1..Len(name)}
         /\ Interfere(p)
         /\ pc' = [pc EXCEPT ![p] = "loop"]
         /\ UNCHANGED <<result, idx, records, attempt>>

\*     makedirs(data_location)
Makedirs(p) ==
    /\ pc[p] = "makedirs"
    /\ makedirs(p, Loc(p))
    /\ UNCHANGED <<files, args, fetched, examined, placed, failedDl, retryOf,
                   firstOK, priorOK, seenCorrupt, calls>>

\* Mutants of the existence test: it also rejects a file with a wrong
\* digest; it always fails; it never fails.
MissingOrCorrupt(path) ==
    ~exists(path) \/ (path \in DOMAIN files /\ sha256(files[path]) = OtherDigest)

MissingAlways(path) == TRUE

MissingNever(path) == FALSE

\* if not exists(local_path):
Missing(path) == ~exists(path)

\* Mutant: the flag is ignored.
DownloadDisabledNever(p) == FALSE

\*     if not download_if_missing:
DownloadDisabled(p) == ~args[p].download_if_missing

\* for file_type, meta in ARCHIVE.items(): one pass of the loop body up to
\* the call of _fetch_remote.
LoopBody(p) ==
    /\ pc[p] = "loop"
    /\ idx[p] <= Len(Items(args[p].module))
    /\ LET file_type == CurItem(p)[1]
           path == CurPath(p)
       IN /\ examined' = [examined EXCEPT ![p] = Append(@, file_type)]
          /\ retryOf' = [retryOf EXCEPT ![p] =
                 IF path \in failedDl THEN @ \cup {file_type} ELSE @]
          /\ seenCorrupt' = [seenCorrupt EXCEPT ![p] =
                 IF path \in DOMAIN files /\ ~Verified(path, CurItem(p)[2])
                 THEN @ \cup {file_type} ELSE @]
          /\ IF Missing(path)
             THEN IF DownloadDisabled(p)
                  THEN /\ Raise(p, "IOError", file_type, path)
                       /\ UNCHANGED fetched
                  ELSE /\ records' = [records EXCEPT ![p] = SetItem(@, file_type, path)]
                       /\ pc' = [pc EXCEPT ![p] = "fetch_remote"]
                       /\ fetched' = [fetched EXCEPT ![p] = Append(@, file_type)]
                       /\ UNCHANGED <<idx, attempt, result>>
             ELSE /\ records' = [records EXCEPT ![p] = SetItem(@, file_type, path)]
                  /\ idx' = [idx EXCEPT ![p] = @ + 1]
                  /\ UNCHANGED <<pc, result, fetched, attempt>>
    /\ UNCHANGED <<dirs, files, args, placed, failedDl, firstOK, priorOK,
                   interfered, calls>>

----------------------------------------------------------------------------
(* base._fetch_remote(meta, dirname=data_location): the Downloader.        *)

\* A download that failed: the final path is remembered as failed unless
\* somebody has placed a file there.
NoteFailure(path) ==
    failedDl' = IF placed[path] = 0 THEN failedDl \cup {path} ELSE failedDl

\* _fetch_remote is done with this role: back to the for loop.
NextRole(p) ==
    /\ pc' = [pc EXCEPT ![p] = "loop"]
    /\ idx' = [idx EXCEPT ![p] = @ + 1]
    /\ attempt' = [attempt EXCEPT ![p] = 0]
    /\ UNCHANGED <<records, result>>

\* Entry: the file is there already (no network access), or a temporary
\* file is opened next to the final path and the transfer starts.
FetchRemoteBegin(p) ==
    /\ pc[p] = "fetch_remote"
    /\ IF exists(CurPath(p))
       THEN /\ NextRole(p)
            /\ UNCHANGED files
       ELSE /\ files' = WriteFile(files, CurTemp(p), <<CurItem(p)[2].url, "partial">>)
            /\ pc' = [pc EXCEPT ![p] = "transfer"]
            /\ UNCHANGED <<idx, attempt, records, result>>
    /\ UNCHANGED <<dirs, args, fetched, examined, placed, failedDl, retryOf,
                   firstOK, priorOK, seenCorrupt, interfered, calls>>

\* Mutant: a failed transfer is always tried again.
MayRetryAlways(p) == TRUE

\* A failed transfer is tried again while retries are left.
MayRetry(p) == attempt[p] < MaxRetries

\* Mutant: a retry is not counted.
RetriesUsedStuck(p) == attempt[p]

\* The number of retries once this one is made.
RetriesUsed(p) == attempt[p] + 1

\* The transfer ends: all bytes arrived (as published, or damaged), or the
\* connection failed; a failed transfer is retried MaxRetries times.
FetchRemoteTransfer(p, outcome) ==
    /\ pc[p] = "transfer"
    /\ IF outcome \in {"complete", "corrupt"}
       THEN /\ files' = WriteFile(files, CurTemp(p), <<CurItem(p)[2].url, outcome>>)
            /\ pc' = [pc EXCEPT ![p] = "verify"]
            /\ UNCHANGED <<idx, attempt, records, result, failedDl>>
       ELSE /\ files' = RemoveFile(files, CurTemp(p))
            /\ IF MayRetry(p)
               THEN /\ attempt' = [attempt EXCEPT ![p] = RetriesUsed(p)]
                    /\ pc' = [pc EXCEPT ![p] = "fetch_remote"]
                    /\ UNCHANGED <<idx, records, result, failedDl>>
               ELSE /\ Raise(p, "TransientFetchError", CurItem(p)[1], CurPath(p))
                    /\ NoteFailure(CurPath(p))
    /\ UNCHANGED <<dirs, args, fetched, examined, placed, retryOf, firstOK,
                   priorOK, seenCorrupt, interfered, calls>>

\* Mutant: the digest is not compared.
DigestAlwaysMatches(p) == TRUE

\* The computed digest equals the recorded one.
DigestMatches(p) == sha256(files[CurTemp(p)]) = CurItem(p)[2].checksum

\* The digest of the temporary file is compared with meta.checksum; on a
\* match the file is renamed to the final path, unless a file is there
\* already, which is then used as it is.
FetchRemoteVerify(p) ==
    /\ pc[p] = "verify"
    /\ LET tmp == CurTemp(p)
           final == CurPath(p)
       IN IF ~DigestMatches(p)
          THEN /\ files' = RemoveFile(files, tmp)
               /\ Raise(p, "IntegrityError", CurItem(p)[1], final)
               /\ NoteFailure(final)
               /\ UNCHANGED <<placed, interfered>>
          ELSE /\ IF exists(final)
                  THEN /\ files' = RemoveFile(files, tmp)
                       /\ UNCHANGED <<placed, failedDl, interfered>>
                  ELSE /\ files' = WriteFile(RemoveFile(files, tmp), final, files[tmp])
                       /\ placed' = [placed EXCEPT ![final] = @ + 1]
                       /\ failedDl' = failedDl \ {final}
                       /\ Interfere(p)
               /\ NextRole(p)
    /\ UNCHANGED <<dirs, args, fetched, examined, retryOf, firstOK, priorOK,
                   seenCorrupt, calls>>

----------------------------------------------------------------------------
(* The end of the fetch function.                                          *)

\* with codecs.open(join(module_path, 'descr', DESCRIPTION)) as dfile:
\*     records.DESCR = dfile.read()
\* return records
ReadDescrReturn(p, readable) ==
    /\ pc[p] = "loop"
    /\ idx[p] > Len(Items(args[p].module))
    /\ IF readable
       THEN LET recs == SetItem(records[p], "DESCR", DescrText(args[p].module))
                key == <<args[p].data_home, args[p].module>>
            IN /\ Leave(p, Returned(recs))
               /\ firstOK' = IF firstOK[key] = Bunch
                             THEN [firstOK EXCEPT ![key] = recs] ELSE firstOK
       ELSE /\ Raise(p, "FileNotFoundError", "DESCR", <<DESCRIPTION(args[p].module)>>)
            /\ UNCHANGED firstOK
    /\ UNCHANGED <<dirs, files, args, fetched, examined, placed, failedDl,
                   retryOf, priorOK, seenCorrupt, interfered, calls>>

\* Outside the program, between calls: the content of a cached file is
\* changed on disk.
Mutate(f) ==
    /\ f \in DOMAIN files
    /\ f \in FinalPaths
    /\ \A q \in Procs : pc[q] \in {"idle", "done"}
    /\ files[f][2] # "mutated"
    /\ Cardinality({g \in DOMAIN files : files[g][2] = "mutated"}) < MaxMutations
    /\ files' = [files EXCEPT ![f] = <<files[f][1], "mutated">>]
    /\ Interfere("outside")
    /\ UNCHANGED <<dirs, pc, args, idx, records, attempt, result, fetched,
                   examined, placed, failedDl, retryOf, firstOK, priorOK,
                   seenCorrupt, calls>>

\* The next statement of a call in progress.
Progress(p) ==
    \/ ExistsDataLocation(p)
    \/ Makedirs(p)
    \/ LoopBody(p)
    \/ FetchRemoteBegin(p)
    \/ \E o \in {"complete", "corrupt", "neterror"} : FetchRemoteTransfer(p, o)
    \/ FetchRemoteVerify(p)
    \/ \E r \in BOOLEAN : ReadDescrReturn(p, r)

Step(p) ==
    \/ \E m \in Modules, h \in DataHomeArgs, d \in BOOLEAN : Call(p, m, h, d)
    \/ Progress(p)

Next == \E p \in Procs : Step(p)

Spec == Init /\ [][Next]_vars

\* A caller that is inside the fetch function keeps running: its next
\* statement is executed, and a transfer under way ends, by the arrival of
\* the bytes or by the transport's timeout.
SpecLive == Init /\ [][Next]_vars /\ \A p \in Procs : WF_vars(Progress(p))

NextEnv == Next \/ \E f \in FinalPaths : Mutate(f)

SpecEnv == Init /\ [][NextEnv]_vars

----------------------------------------------------------------------------
(* Vocabulary of the properties.                                           *)

RolesOf(p) == Roles(args[p].module)

PathOf(p, role) == local_path(args[p].module, args[p].data_home, role)

FetchedRoles(p) == {fetched[p][k] : k \in 1..Len(fetched[p])}

InDownloader(p) == pc[p] \in {"fetch_remote", "transfer", "verify"}

HasReturned(p) == pc[p] = "done" /\ result[p].status = "returned"

HasRaised(p, type) ==
    pc[p] = "done" /\ result[p].status = "raised" /\ result[p].exc.type = type

\* Every cache entry: a module, a data_home and a role of the module.
Entries ==
    UNION {{[m |-> m, h |-> h, role |-> r] : r \in Roles(m)} :
           <<m, h>> \in Modules \X DataHomeArgs}

EntryPath(e) == local_path(e.m, e.h, e.role)

\* The state of a cache entry as an observer of the filesystem sees it.
FileState(e) ==
    IF EntryPath(e) \in DOMAIN files
    THEN IF Verified(EntryPath(e), Meta(e.m, e.role)) THEN "VERIFIED" ELSE "UNVERIFIED"
    ELSE IF \E p \in Procs :
                temp_path(data_location(e.m, e.h), Meta(e.m, e.role), p) \in DOMAIN files
         THEN "DOWNLOADING"
         ELSE "ABSENT"

----------------------------------------------------------------------------
(* C1..C10                                                                 *)

\* C1: a call with download_if_missing=False never invokes _fetch_remote,
\* and when it ran against a cache (unchanged by anybody else since the
\* call began) in which some role's file is absent, it ended in the
\* IOError that reports missing data.
C1_DisabledNeverDownloads ==
    \A p \in Procs :
        (pc[p] # "idle" /\ ~args[p].download_if_missing) =>
            /\ fetched[p] = <<>>
            /\ ~InDownloader(p)
            /\ (/\ pc[p] = "done"
                /\ ~interfered[p]
                /\ \E r \in RolesOf(p) : PathOf(p, r) \notin DOMAIN files)
               => HasRaised(p, "IOError")

\* C1's case: downloads disabled, the first role cached, a later one absent.
C1_Witness ==
    \E p \in Procs :
        /\ HasRaised(p, "IOError")
        /\ ~args[p].download_if_missing
        /\ ~interfered[p]
        /\ Len(examined[p]) >= 2
        /\ PathOf(p, examined[p][1]) \in DOMAIN files

\* C2 as stated: a call that found a cached file with a wrong digest does
\* not return unless it downloaded that role again.
C2_Original ==
    \A p \in Procs : HasReturned(p) => seenCorrupt[p] \subseteq FetchedRoles(p)

\* C2 amended: a cached file whose content does not match its checksum is
\* taken as it is: the call tests existence only, does not download the
\* role again, raises no IntegrityError for it, leaves the file in place
\* unrepaired, and on success returns its path.
C2_ExistenceOnly ==
    \A p \in Procs : \A r \in seenCorrupt[p] :
        /\ r \notin FetchedRoles(p)
        /\ PathOf(p, r) \in DOMAIN files
        /\ ~Verified(PathOf(p, r), Meta(args[p].module, r))
        /\ ~(result[p].exc.type = "IntegrityError" /\ result[p].exc.role = r)
        /\ HasReturned(p) => result[p].bundle[r] = PathOf(p, r)

\* C2's case: a call returned after finding a mutated file in the cache.
C2_Witness == \E p \in Procs : HasReturned(p) /\ seenCorrupt[p] # {}

\* C3: a call that began after a call with the same data_home and module
\* had returned invokes _fetch_remote for no role, fails at most at reading
\* the description, and returns the role-to-path mapping of that call.
C3_Idempotent ==
    \A p \in Procs :
        (pc[p] # "idle" /\ priorOK[p] # Bunch) =>
            /\ fetched[p] = <<>>
            /\ ~InDownloader(p)
            /\ (pc[p] = "done" /\ result[p].status = "raised")
               => result[p].exc.type = "FileNotFoundError"
            /\ HasReturned(p) =>
                 /\ DOMAIN result[p].bundle = DOMAIN priorOK[p]
                 /\ \A r \in RolesOf(p) : result[p].bundle[r] = priorOK[p][r]

\* C3's case: a second call has returned.
C3_Witness == \E p \in Procs : HasReturned(p) /\ priorOK[p] # Bunch

\* The step in which caller p returns a bundle.
Returns(p) ==
    pc[p] # "done" /\ pc'[p] = "done" /\ result'[p].status = "returned"

\* C4 as stated: at the moment a call returns, every role's path holds a
\* file whose content matches the role's checksum.
C4_Original ==
    [][\A p \in Procs : Returns(p) =>
          \A r \in RolesOf(p) :
              /\ PathOf(p, r) \in DOMAIN files'
              /\ sha256(files'[PathOf(p, r)]) = Meta(args[p].module, r).checksum]_vars

\* C4 amended: at the moment a call returns, the bundle maps every role to
\* its local path and a file exists there; its content matches the
\* checksum except for a role whose file the call found present with
\* another content (fetch verifies what it downloads, not what it finds).
C4_ReturnedPathsExist ==
    [][\A p \in Procs : Returns(p) =>
          \A r \in RolesOf(p) :
              /\ r \in DOMAIN result'[p].bundle
              /\ result'[p].bundle[r] = PathOf(p, r)
              /\ PathOf(p, r) \in DOMAIN files'
              /\ r \notin seenCorrupt[p] =>
                   sha256(files'[PathOf(p, r)]) = Meta(args[p].module, r).checksum]_vars

\* C4's case: a call returned a bundle with a role it downloaded and a role
\* it found, mutated, in the cache.
C4_Witness ==
    \E p \in Procs :
        /\ HasReturned(p)
        /\ fetched[p] # <<>>
        /\ seenCorrupt[p] # {}

\* C5: a call gives back nothing while it runs; when it is over it has
\* either returned a bundle of all the roles and the description, every
\* role's file being in the cache, or raised an error and returned nothing.
C5_AllOrNothing ==
    \A p \in Procs :
        /\ pc[p] # "done" => result[p] = NoResult
        /\ pc[p] = "done" =>
             \/ /\ result[p].status = "returned"
                /\ result[p].exc = NoExc
                /\ DOMAIN result[p].bundle = RolesOf(p) \cup {"DESCR"}
                /\ \A r \in RolesOf(p) : PathOf(p, r) \in DOMAIN files
             \/ /\ result[p].status = "raised"
                /\ result[p].exc.type # ""
                /\ result[p].bundle = Bunch

\* C5's case: a call failed after it had resolved at least one role.
C5_Witness ==
    \E p \in Procs :
        /\ pc[p] = "done"
        /\ result[p].status = "raised"
        /\ Len(examined[p]) >= 2

\* C6: every cache entry moves only ABSENT -> DOWNLOADING -> VERIFIED or
\* DOWNLOADING -> ABSENT; a final path never holds an unverified or
\* partially written file and a verified file stays as it is.
C6_FileLifecycle ==
    [][\A e \in Entries :
          <<FileState(e), FileState(e)'>> \in
              { <<"ABSENT", "ABSENT">>, <<"ABSENT", "DOWNLOADING">>,
                <<"DOWNLOADING", "DOWNLOADING">>, <<"DOWNLOADING", "ABSENT">>,
                <<"DOWNLOADING", "VERIFIED">>, <<"VERIFIED", "VERIFIED">> }]_vars

\* C6's case: one entry is verified while another is being downloaded by
\* two callers at once.
C6_Witness ==
    \E e, g \in Entries :
        /\ FileState(e) = "VERIFIED"
        /\ FileState(g) = "DOWNLOADING"
        /\ \A p \in Procs : pc[p] \in {"transfer", "verify"}

\* C7 as stated: concurrent calls fail only for reasons of their arguments
\* or their environment (missing data, network, digest, description), never
\* because of each other; a final path is placed at most once; two calls
\* of the same module and data_home that return give the same bundle.
C7_Original ==
    /\ \A p \in Procs :
          (pc[p] = "done" /\ result[p].status = "raised") =>
              result[p].exc.type \in {"IOError", "TransientFetchError",
                                      "IntegrityError", "FileNotFoundError"}
    /\ \A f \in FinalPaths : placed[f] <= 1
    /\ \A p, q \in Procs :
          (/\ HasReturned(p) /\ HasReturned(q)
           /\ args[p].module = args[q].module
           /\ args[p].data_home = args[q].data_home)
          => result[p].bundle = result[q].bundle

\* C8 as stated: no call fails because the dataset directory exists.
C8_Original ==
    \A p \in Procs : ~HasRaised(p, "FileExistsError")

\* C9: while a download is under way, and after it has failed, no file is
\* at the role's final path unless another download placed it; a later
\* call with downloads enabled that examines such a role invokes
\* _fetch_remote for it.
C9_FailedDownloadLeavesNothing ==
    /\ \A p \in Procs :
          (pc[p] \in {"transfer", "verify"} /\ placed[CurPath(p)] = 0)
              => CurPath(p) \notin DOMAIN files
    /\ \A f \in failedDl : f \notin DOMAIN files
    /\ \A p \in Procs :
          (pc[p] # "idle" /\ args[p].download_if_missing)
              => retryOf[p] \subseteq FetchedRoles(p)

\* C9's case: a call has downloaded a role whose earlier download had failed.
C9_Witness ==
    \E p \in Procs :
        /\ HasReturned(p)
        /\ retryOf[p] # {}
        /\ \A r \in retryOf[p] : PathOf(p, r) \in DOMAIN files

\* C10: the roles are examined in the order of ARCHIVE; the IOError for
\* missing data names the role examined last and its local path, every
\* role before it has its file, and that role's file is absent (as long as
\* nobody else has changed the cache since).
C10_FirstMissingRole ==
    \A p \in Procs :
        LET A == ARCHIVE(args[p].module)
            n == Len(examined[p])
        IN pc[p] # "idle" =>
            /\ n <= Len(A)
            /\ \A k \in 1..n : examined[p][k] = A[k][1]
            /\ HasRaised(p, "IOError") =>
                 /\ n >= 1
                 /\ result[p].exc.role = A[n][1]
                 /\ result[p].exc.path =
                        join(join(get_data_home(args[p].data_home),
                                  NAME(args[p].module)), A[n][2].filename)
                 /\ \A k \in 1..(n - 1) : PathOf(p, A[k][1]) \in DOMAIN files
                 /\ ~interfered[p] => result[p].exc.path \notin DOMAIN files

\* C10's case: the error names the second role, the first being cached.
C10_Witness ==
    \E p \in Procs :
        /\ HasRaised(p, "IOError")
        /\ Len(examined[p]) = 2
        /\ ~interfered[p]

----------------------------------------------------------------------------
(* C11..C19                                                                *)

\* C11: a bundle that is returned has exactly the roles declared in the
\* module's ARCHIVE (adk_equilibrium: topology, trajectory; ifabp_water:
\* topology, structure, trajectory) and DESCR; each role maps to
\* <data_home>/<NAME>/<filename>, DESCR to the module's description text.
C11_BundleShape ==
    \A p \in Procs :
        HasReturned(p) =>
            LET b == result[p].bundle
                m == args[p].module
                declared == IF m = "adk_equilibrium"
                            THEN {"topology", "trajectory"}
                            ELSE {"topology", "structure", "trajectory"}
            IN /\ DOMAIN b = declared \cup {"DESCR"}
               /\ \A r \in declared :
                     b[r] = get_data_home(args[p].data_home)
                                \o <<NAME(m), Meta(m, r).filename>>
               /\ b["DESCR"] = DescrText(m)

\* C11's case: a call of fetch_ifabp_water that downloaded its three files
\* has returned.
C11_Witness ==
    \E p \in Procs :
        /\ HasReturned(p)
        /\ args[p].module = "ifabp_water"
        /\ Len(fetched[p]) = 3


IsPrefix(a, b) == Len(a) <= Len(b) /\ SubSeq(b, 1, Len(a)) = a

\* The directories that exist strictly below the directory home.
DirsBelow(home) == {d \in dirs : Len(d) > Len(home) /\ IsPrefix(home, d)}

\* C12: below a data_home there are only dataset directories
\* <data_home>/<dataset_name>, at most one per call made, and no other
\* directory is created anywhere; a call that is past its makedirs, with
\* either value of download_if_missing and whether it succeeds or fails,
\* has its own dataset directory.  So after one call on a fresh data_home
\* exactly the dataset's directory exists below it.
C12_OnlyDatasetDir ==
    \A h \in DataHomeArgs :
        LET home == get_data_home(h)
            below == DirsBelow(home)
        IN /\ below \subseteq {home \o <<"adk_equilibrium">>, home \o <<"ifabp_water">>}
           /\ Cardinality(below) <= calls
           /\ \A d \in dirs : d \in below \/ IsPrefix(d, home)
           /\ \A p \in Procs :
                 (args[p].data_home = h /\ pc[p] \notin {"idle", "exists_dir", "makedirs"})
                     => home \o <<args[p].module>> \in below

\* C12's case: the only call so far, with downloads disabled, has failed,
\* and its dataset directory is the one directory below data_home.
C12_Witness ==
    \E p \in Procs :
        /\ calls = 1
        /\ HasRaised(p, "IOError")
        /\ ~args[p].download_if_missing
        /\ DirsBelow(get_data_home(args[p].data_home))
               = {get_data_home(args[p].data_home) \o <<args[p].module>>}


\* C13: within one invocation of _fetch_remote a failed transfer is tried
\* again at most MaxRetries times, every retry being counted, and the
\* TransientFetchError reaches the caller of fetch only when the retries
\* are used up: at most MaxRetries + 1 transfers per role and call.
C13_BoundedRetries ==
    [][\A p \in Procs :
          /\ attempt'[p] <= MaxRetries
          /\ (pc[p] = "transfer" /\ pc'[p] = "fetch_remote")
                => attempt'[p] = attempt[p] + 1
          /\ (pc[p] = "transfer" /\ HasRaised(p, "TransientFetchError")')
                => attempt[p] = MaxRetries]_vars

\* C13's case: a call has ended in TransientFetchError.
C13_Witness == \E p \in Procs : HasRaised(p, "TransientFetchError")


C15_Original ==
    \A f \in DOMAIN files :
        (\E r \in Roles("ifabp_water") :
            f[Len(f)] = Meta("ifabp_water", r).filename)
        => \E h \in DataHomeArgs :
              f = get_data_home(h) \o <<"adk_equilibrium", f[Len(f)]>>


\* C16: with downloading enabled, a call invokes the downloader at most once
\* per role: exactly when it tests the role's local path and finds no file
\* there, and at no other step; a role whose file is present when tested is
\* never handed to the downloader.
C16_OncePerAbsentRole ==
    [][\A p \in Procs :
          /\ \A j, k \in 1..Len(fetched[p]) :
                 fetched[p][j] = fetched[p][k] => j = k
          /\ IF pc[p] = "loop" /\ examined'[p] # examined[p]
             THEN LET file_type == CurItem(p)[1]
                  IN /\ file_type \notin FetchedRoles(p)
                     /\ IF ~exists(CurPath(p)) /\ args[p].download_if_missing
                        THEN /\ fetched'[p] = Append(fetched[p], file_type)
                             /\ pc'[p] = "fetch_remote"
                        ELSE fetched'[p] = fetched[p]
             ELSE \/ fetched'[p] = fetched[p]
                  \/ pc[p] \in {"idle", "done"} /\ fetched'[p] = <<>>]_vars

\* A call with downloading enabled has returned after finding the first role
\* cached and downloading only a later one.
C16_Witness ==
    \E p \in Procs :
        /\ HasReturned(p)
        /\ args[p].download_if_missing
        /\ Len(fetched[p]) = 1
        /\ fetched[p][1] # examined[p][1]
        /\ ~interfered[p]


\* C17: no step of a fetch call replaces, rewrites or removes a file that
\* exists at a final path: after the step the file is still there with the
\* content it had before, whatever that content is (a step of a call changes
\* the caller's position; a change made from outside the library does not).
C17_ExistingFilesKept ==
    [][(pc' # pc \/ idx' # idx)
          => \A f \in FinalPaths \cap DOMAIN files :
                 f \in DOMAIN files' /\ files'[f] = files[f]]_vars

\* A call has returned without downloading after testing a role whose file
\* had been altered from outside, and the altered file is still in place.
C17_Witness ==
    \E p \in Procs :
        /\ HasReturned(p)
        /\ fetched[p] = <<>>
        /\ \E r \in seenCorrupt[p] :
               /\ PathOf(p, r) \in DOMAIN files
               /\ files[PathOf(p, r)][2] = "mutated"


\* C18: a step of a call made with download_if_missing=False creates,
\* replaces and removes no file; the only change it makes to the directories
\* is the makedirs of its dataset directory and the missing parents, done
\* before any role is tested.  A call that got as far as testing a role, so
\* also one that failed for missing data, has its dataset directory.
C18_DisabledOnlyMakesDir ==
    [][\A p \in Procs :
          (pc[p] \notin {"idle", "done"} /\ ~args[p].download_if_missing)
          => /\ pc[p] \in {"loop", "fetch_remote", "transfer", "verify"}
                 => Loc(p) \in dirs
             /\ pc'[p] = "done" /\ result'[p].exc.type = "IOError"
                 => Loc(p) \in dirs'
             /\ (pc'[p] # pc[p] \/ idx'[p] # idx[p])
                 => /\ files' = files
                    /\ dirs' # dirs
                        => /\ pc[p] = "makedirs"
                           /\ examined[p] = <<>>
                           /\ dirs' = dirs \cup {SubSeq(Loc(p), 1, k) :
                                                    k \in 1..Len(Loc(p))}]_vars

\* A call with downloads disabled on an empty cache has failed for missing
\* data: its dataset directory is there and no file is.
C18_Witness ==
    \E p \in Procs :
        /\ HasRaised(p, "IOError")
        /\ ~args[p].download_if_missing
        /\ Len(examined[p]) = 1
        /\ Loc(p) \in dirs
        /\ DOMAIN files = {}


\* C19: with the same data_home the two datasets have different directories
\* and no final path in common, and no step of a call for one dataset
\* creates, changes or removes a file or a directory at or below the other
\* dataset's directory.
C19_DatasetsDisjoint ==
    [][\A h \in DataHomeArgs :
          /\ data_location("adk_equilibrium", h) # data_location("ifabp_water", h)
          /\ {local_path("adk_equilibrium", h, r) : r \in Roles("adk_equilibrium")}
               \cap {local_path("ifabp_water", h, r) : r \in Roles("ifabp_water")} = {}
          /\ \A p \in Procs, other \in Modules :
                (/\ pc[p] \notin {"idle", "done"}
                 /\ args[p].data_home = h
                 /\ other # args[p].module
                 /\ pc'[p] # pc[p] \/ idx'[p] # idx[p])
                => LET theirs(x) == IsPrefix(data_location(other, h), x)
                   IN /\ \A d \in dirs \cup dirs' :
                             theirs(d) => (d \in dirs /\ d \in dirs')
                      /\ \A f \in DOMAIN files \cup DOMAIN files' :
                             theirs(f) => /\ f \in DOMAIN files
                                          /\ f \in DOMAIN files'
                                          /\ files'[f] = files[f]]_vars

\* Both datasets have been fetched into the same data_home: a call for each
\* has returned and every file of both is in the cache.
C19_Witness ==
    \E p, q \in Procs :
        /\ HasReturned(p) /\ args[p].module = "adk_equilibrium"
        /\ HasReturned(q) /\ args[q].module = "ifabp_water"
        /\ args[p].data_home = args[q].data_home
        /\ FinalPaths \subseteq DOMAIN files

====
